---- MODULE Spec2Model ----
(***************************************************************************)
(* MP3-to-MIDI batch converters.                                           *)
(*                                                                         *)
(*   convert_new_mp3s.py          the basic converter                      *)
(*   stem_and_convert_new_mp3s.py the stem converter and the MIDI merge    *)
(*                                                                         *)
(* Spec        one run of process_new_mp3s, of either script, over a       *)
(*             filesystem of data/ and out/.                               *)
(* SpecCombine one call of combine_midi_files over four stem MIDI files.   *)
(*                                                                         *)
(* A file name is a record [parts, ext]: the name is its parts joined by   *)
(* "_" and, when ext is not "", followed by "." and ext.  A path is the    *)
(* sequence of its components' names.  The filesystem is the set of the    *)
(* paths that exist.                                                       *)
(***************************************************************************)
EXTENDS Integers, Sequences, FiniteSets, TLC

\* ------------------------------------------------------------ bounds
MaxFiles == 3      \* MP3 files in data/
MaxPre == 1        \* inputs that have outputs in out/ before the run
MaxMsgs == 2       \* messages in the first track of a stem MIDI file
MaxTime == 1       \* largest time value of a MIDI message

\* ------------------------------------------------------------ paths
Name(parts, ext) == [parts |-> parts, ext |-> ext]

\* os.path.join(dir, name)
join(dir, name) == Append(dir, name)

\* os.path.basename(path)
basename(path) == path[Len(path)]

\* os.path.splitext(name): <<root, ext>>
splitext(name) == <<Name(name.parts, ""), name.ext>>

IsPrefix(d, p) == Len(d) <= Len(p) /\ SubSeq(p, 1, Len(d)) = d

OutDir == <<Name(<<"out">>, "")>>
DataDir == <<Name(<<"data">>, "")>>

NoStem == ""

\* f"{base_name}_{stem_name}_basic_pitch.mid" / f"{base_name}_basic_pitch.mid"
get_output_path(input_path, stem_name) ==
    LET base_name == splitext(basename(input_path))[1]
    IN  IF stem_name # NoStem
        THEN join(OutDir, Name(base_name.parts \o <<stem_name, "basic", "pitch">>, "mid"))
        ELSE join(OutDir, Name(base_name.parts \o <<"basic", "pitch">>, "mid"))

\* The transcription tool, `basic-pitch <output-dir> <audio-path>`: the MIDI
\* file it writes on success, named after the basename of the audio path.
BasicPitchOutput(output_dir, audio_path) ==
    LET root == splitext(basename(audio_path))[1]
    IN  join(output_dir, Name(root.parts \o <<"basic", "pitch">>, "mid"))

\* os.makedirs(path, exist_ok=True)
makedirs(files, path) == files \cup {SubSeq(path, 1, i) : i \in 1..Len(path)}

\* shutil.rmtree(dir)
rmtree(files, dir) == {p \in files : ~IsPrefix(dir, p)}

\* ------------------------------------------------------------ stems
\* the scan's list of stems
ScanStems == <<"drums", "bass", "vocals", "other">>

\* model.sources of the 4-stem separation model, the order of stems.items()
Sources == <<"drums", "bass", "other", "vocals">>

StemSet == {ScanStems[i] : i \in 1..Len(ScanStems)}

temp_dir == join(OutDir, Name(<<"temp", "stems">>, ""))

stems_dir(input_path) == join(temp_dir, splitext(basename(input_path))[1])

stem_path(input_path, name) == join(stems_dir(input_path), Name(<<name>>, "wav"))

combined_path(mp3_path) ==
    join(OutDir, Name(splitext(basename(mp3_path))[1].parts \o <<"combined">>, "mid"))

\* ------------------------------------------------------------ MIDI merge
\* A MIDI message as mido yields it; note and velocity are 0 where the type has none.
Msg(type, note, time, velocity) ==
    [type |-> type, note |-> note, time |-> time, velocity |-> velocity]

\* A stem MIDI file on disk: absent, or its tracks.
NoFile == [present |-> FALSE, tracks |-> <<>>]
MidiFile(tracks) == [present |-> TRUE, tracks |-> tracks]

\* msg.time + 100
NoteLength == 100

\* combined = MIDIFile(): midiutil's writer, built with its default
\* numTracks = 1, so the only track its calls may name is track 0
NumTracks == 1

track_mapping(stem_name) ==
    CASE stem_name = "drums" -> 9
      [] stem_name = "bass" -> 0
      [] stem_name = "vocals" -> 1
      [] stem_name = "other" -> 2
      [] OTHER -> 4

\* combined = MIDIFile()
EmptyCombined == [names |-> {}, programs |-> {}, notes |-> <<>>]

\* The writer holds NumTracks tracks; a call naming another track raises IndexError.
HasTrack(track) == track < NumTracks

\* MIDIFile.addTrackName(track, time, trackName)
addTrackName(combined, track, time, trackName) ==
    [combined EXCEPT !.names = @ \cup {[track |-> track, time |-> time, name |-> trackName]}]

\* MIDIFile.addProgramChange(tracknum, channel, time, program)
addProgramChange(combined, tracknum, channel, time, program) ==
    [combined EXCEPT !.programs =
        @ \cup {[track |-> tracknum, channel |-> channel, time |-> time, program |-> program]}]

\* MIDIFile.addNote(track, channel, pitch, time, duration, volume): the fifth
\* argument is the note's duration
addNote(combined, track, channel, pitch, time, duration, volume) ==
    [combined EXCEPT !.notes = Append(@,
        [track |-> track, channel |-> channel, pitch |-> pitch, time |-> time,
         duration |-> duration, volume |-> volume])]

\* the program change of a stem, none for drums
SetProgram(combined, track, stem_name) ==
    IF stem_name = "drums" THEN combined
    ELSE IF stem_name = "bass" THEN addProgramChange(combined, track, 0, 0, 33)
    ELSE IF stem_name = "vocals" THEN addProgramChange(combined, track, 0, 0, 53)
    ELSE addProgramChange(combined, track, 0, 0, 0)

\* for msg in mid.tracks[0]: a note for each note_on
RECURSIVE CopyMessages(_, _, _, _)
CopyMessages(combined, track, msgs, i) ==
    IF i > Len(msgs) THEN combined
    ELSE LET msg == msgs[i]
             next == IF msg.type = "note_on"
                     THEN addNote(combined, track, 0, msg.note, msg.time,
                                  msg.time + NoteLength, msg.velocity)
                     ELSE combined
         IN  CopyMessages(next, track, msgs, i + 1)

\* The state of one call of combine_midi_files: the writer, the warnings printed
\* (the missing paths), whether an exception left the function, whether the
\* combined file was written.
CombineStart == [combined |-> EmptyCombined, warnings |-> <<>>, raised |-> FALSE,
                 written |-> FALSE]

\* One iteration of the loop over midi_files.items(); entry = [stem, path, file].
CombineStem(st, entry) ==
    IF st.raised THEN st
    ELSE IF ~entry.file.present THEN [st EXCEPT !.warnings = Append(@, entry.path)]
    ELSE LET track == track_mapping(entry.stem)
         IN  IF ~HasTrack(track) \/ Len(entry.file.tracks) = 0
             THEN [st EXCEPT !.raised = TRUE]
             ELSE [st EXCEPT !.combined =
                      CopyMessages(SetProgram(addTrackName(@, track, 0, entry.stem),
                                              track, entry.stem),
                                   track, entry.file.tracks[1], 1)]

\* with open(output_path, 'wb') as f: combined.writeFile(f)
CombineWrite(st) == IF st.raised THEN st ELSE [st EXCEPT !.written = TRUE]

RECURSIVE CombineLoop(_, _, _)
CombineLoop(st, entries, i) ==
    IF i > Len(entries) THEN st
    ELSE CombineLoop(CombineStem(st, entries[i]), entries, i + 1)

combine_midi_files(entries) == CombineWrite(CombineLoop(CombineStart, entries, 1))

\* ------------------------------------------------------------ state
VARIABLES
    mode,              \* which script runs: "basic" or "stem"
    combine_midi,      \* process_new_mp3s's parameter (stem converter)
    fs,                \* the paths that exist
    fs0,               \* the paths that existed when the run began
    files_to_process,  \* the scan's list
    idx,               \* position of the batch loop in files_to_process
    pc,                \* "scan", "file", "convert", "combine", "cleanup", "done"
    stems,             \* separate_stems' result: <<[name, path], ...>>
    k,                 \* position of the stem loop in stems
    midi_files,        \* <<[stem, path], ...>> in insertion order
    attempts,          \* the files printed as "Processing: ..."
    status,            \* per attempted file: "ok", "tool_error", "raised"
    cur,               \* the current file's tool calls, logged errors, merge
    batch_result,      \* "running", "returned", "aborted"
    cm_entries,        \* combine_midi_files' midi_files with each path's file
    cm_i,              \* position of its loop
    cm_st,             \* its state
    cm_pc              \* "idle", "loop", "write", "done"

batch_vars == <<mode, combine_midi, fs, fs0, files_to_process, idx, pc, stems, k,
                midi_files, attempts, status, cur, batch_result>>
cm_vars == <<cm_entries, cm_i, cm_st, cm_pc>>
vars == <<batch_vars, cm_vars>>

\* ------------------------------------------------------------ inputs
BaseParts == << <<"a">>, <<"b">>, <<"my", "song">>, <<"d">>, <<"e">> >>

Input(i) == join(DataDir, Name(BaseParts[i], "mp3"))

Junk == join(DataDir, Name(<<"notes">>, "txt"))

\* what data/ may hold, in the order the directory is listed
DataEntries == [i \in 1..(MaxFiles + 1) |-> IF i <= MaxFiles THEN Input(i) ELSE Junk]

\* the outputs of an input that exist before the run, by stem (NoStem: the basic output)
PreExisting(m) ==
    IF m = "basic" THEN {{}, {NoStem}}
    ELSE {{}, StemSet, StemSet \ {"other"}, {"bass"}}

\* list(Path('data').glob('*.mp3'))
Glob(files) == SelectSeq(DataEntries, LAMBDA p : p \in files /\ basename(p).ext = "mp3")

\* a scan that asks for every expected output to be missing
NeedsProcessingAllMissing(m, files, mp3_path) ==
    IF m = "basic"
    THEN get_output_path(mp3_path, NoStem) \notin files
    ELSE \A i \in 1..Len(ScanStems) : get_output_path(mp3_path, ScanStems[i]) \notin files

\* the scan's test of one MP3 file
NeedsProcessing(m, files, mp3_path) ==
    IF m = "basic"
    THEN get_output_path(mp3_path, NoStem) \notin files
    ELSE \E i \in 1..Len(ScanStems) : get_output_path(mp3_path, ScanStems[i]) \notin files

ScanList(m, files) == SelectSeq(Glob(files), LAMBDA p : NeedsProcessing(m, files, p))

\* a batch loop without the per-file handler
ExceptionEscapes == FALSE

\* except Exception as e: the per-file handler
ExceptionCaught == TRUE

\* a stem loop that calls the tool again after a non-zero exit
NextStemRetry(i, returncode) == IF returncode = 0 THEN i + 1 ELSE i

\* the stem loop goes on to the next stem whatever the tool returned
NextStem(i, returncode) == i + 1

\* an iteration that leaves the temporary stems in place
CleanupSkipped(files) == files

\* if os.path.exists(temp_dir): shutil.rmtree(temp_dir)
Cleanup(files) == IF temp_dir \in files THEN rmtree(files, temp_dir) ELSE files

NoCur == [calls |-> <<>>, errors |-> {}, combined |-> FALSE]

\* the stem MIDI file at a path of the batch's filesystem
ReadMidi(files, path) ==
    IF path \in files THEN MidiFile(<< <<Msg("note_on", 60, 0, 64)>> >>) ELSE NoFile

CmIdle ==
    /\ cm_entries = <<>> /\ cm_i = 0 /\ cm_st = CombineStart /\ cm_pc = "idle"

Init ==
    /\ \E m \in {"basic", "stem"}, n \in 0..MaxFiles :
         \E pre \in [1..n -> PreExisting(m)], c \in (IF m = "stem" THEN BOOLEAN ELSE {FALSE}) :
            /\ Cardinality({i \in 1..n : pre[i] # {}}) <= MaxPre
            /\ mode = m
            /\ combine_midi = c
            /\ fs = {DataDir} \cup {Input(i) : i \in 1..n}
                      \cup {Junk}
                      \cup UNION {{get_output_path(Input(i), s) : s \in pre[i]} : i \in 1..n}
                      \cup (IF \E i \in 1..n : pre[i] # {} THEN {OutDir} ELSE {})
    /\ fs0 = fs
    /\ files_to_process = <<>>
    /\ idx = 0
    /\ pc = "scan"
    /\ stems = <<>>
    /\ k = 0
    /\ midi_files = <<>>
    /\ attempts = <<>>
    /\ status = <<>>
    /\ cur = NoCur
    /\ batch_result = "running"
    /\ CmIdle

\* ------------------------------------------------------------ the batch
\* process_new_mp3s up to the batch loop
Scan ==
    /\ pc = "scan"
    /\ LET files == makedirs(fs, OutDir)
           todo == ScanList(mode, files)
       IN  /\ fs' = files
           /\ files_to_process' = todo
           /\ IF todo = <<>>
              THEN pc' = "done" /\ idx' = 0 /\ batch_result' = "returned"
              ELSE pc' = "file" /\ idx' = 1 /\ batch_result' = batch_result
    /\ UNCHANGED <<mode, combine_midi, fs0, stems, k, midi_files, attempts, status, cur>>
    /\ UNCHANGED cm_vars

\* the end of one file's pipeline, and the loop's step to the next file
FinishFile(outcome, files) ==
    /\ fs' = files
    /\ status' = Append(status, outcome)
    /\ idx' = idx + 1
    /\ pc' = IF idx + 1 > Len(files_to_process) THEN "done" ELSE "file"
    /\ batch_result' = IF idx + 1 > Len(files_to_process) THEN "returned" ELSE batch_result
    /\ cur' = NoCur
    /\ stems' = <<>>
    /\ midi_files' = <<>>
    /\ k' = 0

\* an exception inside the try block
Raise(files) ==
    IF ExceptionCaught
    THEN FinishFile("raised", files)
    ELSE /\ fs' = files
         /\ pc' = "done"
         /\ batch_result' = "aborted"
         /\ UNCHANGED <<status, idx, cur, stems, midi_files, k>>

Outcome(calls) == IF \E i \in 1..Len(calls) : calls[i].rc # 0 THEN "tool_error" ELSE "ok"

\* basic converter: one iteration of the batch loop
ConvertFile ==
    /\ pc = "file" /\ mode = "basic"
    /\ LET mp3_path == files_to_process[idx]
       IN  /\ attempts' = Append(attempts, mp3_path)
           /\ \/ \E rc \in {0, 1} :
                    FinishFile(Outcome(<<[stem |-> NoStem, rc |-> rc]>>),
                               IF rc = 0 THEN fs \cup {BasicPitchOutput(OutDir, mp3_path)}
                               ELSE fs)
              \/ Raise(fs)
    /\ UNCHANGED <<mode, combine_midi, fs0, files_to_process>>
    /\ UNCHANGED cm_vars

\* stem converter: the start of an iteration, through separate_stems
SeparateStems ==
    /\ pc = "file" /\ mode = "stem"
    /\ LET mp3_path == files_to_process[idx]
           withTemp == makedirs(fs, temp_dir)
           withDir == makedirs(withTemp, stems_dir(mp3_path))
           saved(n) == withDir \cup {stem_path(mp3_path, Sources[j]) : j \in 1..n}
       IN  /\ attempts' = Append(attempts, mp3_path)
           /\ \/ /\ fs' = saved(Len(Sources))
                 /\ stems' = [j \in 1..Len(Sources) |->
                                [name |-> Sources[j], path |-> stem_path(mp3_path, Sources[j])]]
                 /\ midi_files' = <<>>
                 /\ k' = 1
                 /\ cur' = NoCur
                 /\ pc' = "convert"
                 /\ UNCHANGED <<status, idx, batch_result>>
              \/ Raise(fs)                         \* get_model
              \/ Raise(withTemp)                   \* AudioFile(...).read, apply_model
              \/ \E j \in 1..Len(Sources) : Raise(saved(j - 1))   \* save_audio
    /\ UNCHANGED <<mode, combine_midi, fs0, files_to_process>>
    /\ UNCHANGED cm_vars

\* stem converter: one iteration of the stem loop
ConvertStem ==
    /\ pc = "convert"
    /\ LET mp3_path == files_to_process[idx]
           stem_name == stems[k].name
           output_path == get_output_path(mp3_path, stem_name)
       IN  \/ \E rc \in {0, 1} :
                /\ midi_files' = Append(midi_files, [stem |-> stem_name, path |-> output_path])
                /\ fs' = IF rc = 0 THEN fs \cup {BasicPitchOutput(OutDir, stems[k].path)} ELSE fs
                /\ cur' = [cur EXCEPT !.calls = Append(@, [stem |-> stem_name, rc |-> rc]),
                                      !.errors = IF rc = 0 THEN @ ELSE @ \cup {stem_name}]
                /\ k' = NextStem(k, rc)
                /\ pc' = IF NextStem(k, rc) > Len(stems)
                         THEN (IF combine_midi THEN "combine" ELSE "cleanup")
                         ELSE "convert"
                /\ UNCHANGED <<status, idx, stems, batch_result>>
           \/ Raise(fs)                            \* subprocess.run
    /\ UNCHANGED <<mode, combine_midi, fs0, files_to_process, attempts>>
    /\ UNCHANGED cm_vars

\* stem converter: combine_midi_files(midi_files, combined_path)
Combine ==
    /\ pc = "combine"
    /\ LET mp3_path == files_to_process[idx]
           entries == [j \in 1..Len(midi_files) |->
                         [stem |-> midi_files[j].stem, path |-> midi_files[j].path,
                          file |-> ReadMidi(fs, midi_files[j].path)]]
           r == combine_midi_files(entries)
       IN  IF r.raised
           THEN Raise(fs)
           ELSE /\ fs' = fs \cup {combined_path(mp3_path)}
                /\ cur' = [cur EXCEPT !.combined = TRUE]
                /\ pc' = "cleanup"
                /\ UNCHANGED <<status, idx, stems, midi_files, k, batch_result>>
    /\ UNCHANGED <<mode, combine_midi, fs0, files_to_process, attempts>>
    /\ UNCHANGED cm_vars

\* stem converter: the removal of the temporary stems, and the end of the iteration
CleanUp ==
    /\ pc = "cleanup"
    /\ \/ FinishFile(Outcome(cur.calls), Cleanup(fs))
       \/ temp_dir \in fs /\ Raise(fs)             \* shutil.rmtree
    /\ UNCHANGED <<mode, combine_midi, fs0, files_to_process, attempts>>
    /\ UNCHANGED cm_vars

Next == Scan \/ ConvertFile \/ SeparateStems \/ ConvertStem \/ Combine \/ CleanUp

Spec == Init /\ [][Next]_vars

\* ------------------------------------------------------------ the merge alone
BSeq(S, n) == UNION {[1..m -> S] : m \in 0..n}

\* the messages a stem file's first track may hold
Msgs ==
    {Msg("note_on", 60, t, 64) : t \in 0..MaxTime}
      \cup {Msg("note_off", 60, t, 0) : t \in 0..MaxTime}
      \cup {Msg("program_change", 0, 0, 0)}

\* a second track, which the merge never reads
SecondTrack == <<Msg("note_on", 72, 0, 100)>>

StemFiles ==
    {MidiFile(<<t>>) : t \in BSeq(Msgs, MaxMsgs)}
      \cup {MidiFile(<<t, SecondTrack>>) : t \in BSeq(Msgs, MaxMsgs)}

OneNoteFile == MidiFile(<< <<Msg("note_on", 60, 0, 64)>> >>)

\* the order of midi_files.items(): the caller's (Sources) or the scan's
Orders == {Sources, ScanStems}

BatchIdle ==
    /\ mode = "stem" /\ combine_midi = TRUE /\ fs = {} /\ fs0 = {}
    /\ files_to_process = <<>> /\ idx = 0 /\ pc = "done" /\ stems = <<>> /\ k = 0
    /\ midi_files = <<>> /\ attempts = <<>> /\ status = <<>> /\ cur = NoCur
    /\ batch_result = "returned"

\* One stem's file is any of StemFiles or absent; each other stem's file is
\* absent or holds one note-on.
InitCombine ==
    /\ BatchIdle
    /\ \E order \in Orders, rich \in StemSet, content \in StemFiles \cup {NoFile} :
         \E others \in [StemSet \ {rich} -> {NoFile, OneNoteFile}] :
            cm_entries = [j \in 1..Len(order) |->
                            [stem |-> order[j],
                             path |-> get_output_path(Input(1), order[j]),
                             file |-> IF order[j] = rich THEN content ELSE others[order[j]]]]
    /\ cm_i = 1
    /\ cm_st = CombineStart
    /\ cm_pc = "loop"

\* one iteration of combine_midi_files' loop; an exception leaves the function
CombineStep ==
    /\ cm_pc = "loop"
    /\ LET st == CombineStem(cm_st, cm_entries[cm_i])
       IN  /\ cm_st' = st
           /\ cm_i' = cm_i + 1
           /\ cm_pc' = IF st.raised THEN "done"
                       ELSE IF cm_i + 1 > Len(cm_entries) THEN "write" ELSE "loop"
    /\ UNCHANGED cm_entries
    /\ UNCHANGED batch_vars

\* the write of the combined file and the prints after it
CombineFinish ==
    /\ cm_pc = "write"
    /\ cm_st' = CombineWrite(cm_st)
    /\ cm_pc' = "done"
    /\ UNCHANGED <<cm_entries, cm_i>>
    /\ UNCHANGED batch_vars

NextCombine == CombineStep \/ CombineFinish

SpecCombine == InitCombine /\ [][NextCombine]_vars

\* ------------------------------------------------------------ claims: the batch
InSeq(x, q) == \E j \in 1..Len(q) : q[j] = x

\* out/<base>_<stem>_basic_pitch.mid and out/<base>_basic_pitch.mid, written out
ExpectedStemPath(i, stem) ==
    << Name(<<"out">>, ""), Name(BaseParts[i] \o <<stem, "basic", "pitch">>, "mid") >>
ExpectedBasicPath(i) ==
    << Name(<<"out">>, ""), Name(BaseParts[i] \o <<"basic", "pitch">>, "mid") >>
ExpectedCombinedPath(i) ==
    << Name(<<"out">>, ""), Name(BaseParts[i] \o <<"combined">>, "mid") >>

FourStems == {"drums", "bass", "vocals", "other"}

ExpectedOutputs(i) ==
    IF mode = "basic" THEN {ExpectedBasicPath(i)}
    ELSE {ExpectedStemPath(i, s) : s \in FourStems}

InputIndex(p) == CHOOSE i \in 1..MaxFiles : Input(i) = p

Finished(j) == j <= Len(status)

\* C1: after the scan, an MP3 of data/ is in files_to_process if and only if one
\* of its expected outputs was missing from out/ (basic: the one path; stem: any
\* of the four), nothing else is in the list, and only files of the list are
\* handed to separation or to the tool.
C1_ScanSelectsMissing ==
    pc # "scan" =>
        /\ \A i \in 1..MaxFiles :
              Input(i) \in fs0 =>
                 (InSeq(Input(i), files_to_process) <=> ~(ExpectedOutputs(i) \subseteq fs0))
        /\ \A j \in 1..Len(files_to_process) :
              \E i \in 1..MaxFiles : files_to_process[j] = Input(i) /\ Input(i) \in fs0
        /\ \A j \in 1..Len(attempts) : InSeq(attempts[j], files_to_process)

\* C1's case: the stem converter's run has ended; one input had all four
\* outputs and was left out, another was in the list and was processed.
C1_Witness ==
    /\ pc = "done" /\ mode = "stem"
    /\ \E i, j \in 1..MaxFiles :
          /\ Input(i) \in fs0 /\ ExpectedOutputs(i) \subseteq fs0
          /\ ~InSeq(Input(i), files_to_process) /\ ~InSeq(Input(i), attempts)
          /\ InSeq(Input(j), files_to_process) /\ InSeq(Input(j), attempts)

\* C2: in a batch of three inputs that all need processing, when the tool
\* returns non-zero for exactly one input, the expected outputs of the other
\* two exist when the batch ends.
C2_OthersStillProcessed ==
    (/\ pc = "done"
     /\ Len(files_to_process) = 3
     /\ Len(status) = 3
     /\ Cardinality({j \in 1..3 : status[j] = "tool_error"}) = 1
     /\ Cardinality({j \in 1..3 : status[j] = "ok"}) = 2)
    => \A j \in 1..3 :
          status[j] = "ok" => ExpectedOutputs(InputIndex(files_to_process[j])) \subseteq fs

\* C3: after an input is processed with separation and every tool call
\* succeeding, out/ holds <base>_<stem>_basic_pitch.mid for the four stems and
\* <base>_combined.mid (stem converter) or <base>_basic_pitch.mid (basic
\* converter), the paths get_output_path computes.
C3_OutputsNamedAfterInput ==
    /\ \A i \in 1..MaxFiles :
          /\ get_output_path(Input(i), NoStem) = ExpectedBasicPath(i)
          /\ \A s \in FourStems : get_output_path(Input(i), s) = ExpectedStemPath(i, s)
    /\ \A j \in 1..Len(status) :
          status[j] = "ok" =>
             LET i == InputIndex(attempts[j])
             IN  /\ ExpectedOutputs(i) \subseteq fs
                 /\ (mode = "stem" /\ combine_midi) => ExpectedCombinedPath(i) \in fs

\* C6: once the scan has built the list the batch runs to its normal end: the
\* files are attempted once each in list order, whatever fails in one file's
\* pipeline is handled per file, and the batch never ends in an error.
C6_BatchRunsToEnd ==
    /\ batch_result # "aborted"
    /\ Len(attempts) <= Len(files_to_process)
    /\ attempts = SubSeq(files_to_process, 1, Len(attempts))
    /\ pc = "done" =>
          /\ attempts = files_to_process
          /\ Len(status) = Len(files_to_process)
          /\ batch_result = "returned"
    /\ pc # "done" => ENABLED Next

\* C6's case: a batch of three files has ended, every one of them failed, by a
\* non-zero tool exit or by an exception.
C6_Witness ==
    /\ pc = "done" /\ Len(files_to_process) = 3 /\ Len(status) = 3
    /\ \A j \in 1..3 : status[j] # "ok"
    /\ \E j \in 1..3 : status[j] = "raised"
    /\ \E j \in 1..3 : status[j] = "tool_error"

TempPaths == {p \in fs : IsPrefix(<< Name(<<"out">>, ""), Name(<<"temp", "stems">>, "") >>, p)}

\* C9: when a file's pipeline ends without an exception, out/temp_stems and all
\* under it are gone before the next file starts or the batch ends; temporary
\* stems of another input are present only if that input's pipeline raised.
C9_TempStemsRemoved ==
    /\ (mode = "stem" /\ pc \in {"file", "done"} /\ Len(status) >= 1
          /\ status[Len(status)] # "raised") => TempPaths = {}
    /\ \A p \in TempPaths :
          Len(p) >= 3 =>
             \E j \in 1..Len(attempts) :
                /\ p[3] = Name(BaseParts[InputIndex(attempts[j])], "")
                /\ (Finished(j) => status[j] = "raised")

\* C9's case: a file's pipeline ended without an exception, with combine_midi
\* false and a tool call failed, and the temporary stems it made are gone.
C9_Witness ==
    /\ mode = "stem" /\ ~combine_midi /\ pc = "file"
    /\ Len(status) >= 1 /\ status[Len(status)] = "tool_error"
    /\ TempPaths = {}

\* C10: after a run in which separation and every tool call succeeded, the scan
\* of a following run over the same data/ finds no file to process.
C10_RerunFindsNothing ==
    (/\ pc = "done"
     /\ \A j \in 1..Len(status) : status[j] = "ok")
    => ScanList(mode, fs) = <<>>

\* The basic converter alone meets C2, C3 and C10.
BasicOutputsProduced ==
    mode = "basic" => (C2_OthersStillProcessed /\ C3_OutputsNamedAfterInput /\ C10_RerunFindsNothing)

\* ------------------------------------------------------------ claims: the merge
Entries == {cm_entries[j] : j \in 1..Len(cm_entries)}
Present == {e \in Entries : e.file.present}
Absent == {e \in Entries : ~e.file.present}

NoteOns(track) == SelectSeq(track, LAMBDA m : m.type = "note_on")

\* the tracks of the combined file that carry a stem's name
TracksNamed(stem) == {n.track : n \in {x \in cm_st.combined.names : x.name = stem}}

NotesOn(tracks) == SelectSeq(cm_st.combined.notes, LAMBDA n : n.track \in tracks)

ProgramsOn(tracks) == {p \in cm_st.combined.programs : p.track \in tracks}

\* C4: four existing single-track stem files of one note-on each give a combined
\* file of four tracks; the drums notes are on channel 10 (0-based 9) and the
\* drums track has no program change; bass has a program change to 33; vocals
\* are on channel 2 with program 53 and other on channel 3 with program 0.
C4_MergeFourTracks ==
    (/\ cm_pc = "done"
     /\ \A e \in Entries :
           e.file.present /\ Len(e.file.tracks) = 1 /\ Len(NoteOns(e.file.tracks[1])) = 1)
    => /\ cm_st.written
       /\ Cardinality({n.track : n \in cm_st.combined.names}) = 4
       /\ Len(NotesOn(TracksNamed("drums"))) = 1
       /\ \A j \in 1..Len(NotesOn(TracksNamed("drums"))) :
             NotesOn(TracksNamed("drums"))[j].channel = 9
       /\ ProgramsOn(TracksNamed("drums")) = {}
       /\ \E p \in ProgramsOn(TracksNamed("bass")) : p.program = 33
       /\ \E p \in ProgramsOn(TracksNamed("vocals")) : p.program = 53 /\ p.channel = 1
       /\ \E p \in ProgramsOn(TracksNamed("other")) : p.program = 0 /\ p.channel = 2

\* C5: with some but not all of the four stem files absent, the merge raises
\* nothing, writes the combined file with tracks for exactly the present stems,
\* and prints one warning for each missing path.
C5_MergeSkipsMissing ==
    (cm_pc = "done" /\ Absent # {} /\ Present # {})
    => /\ ~cm_st.raised
       /\ cm_st.written
       /\ {n.name : n \in cm_st.combined.names} = {e.stem : e \in Present}
       /\ {cm_st.warnings[j] : j \in 1..Len(cm_st.warnings)} = {e.path : e \in Absent}
       /\ Len(cm_st.warnings) = Cardinality(Absent)

\* the notes C8 expects of a stem file: one per note-on of the first track
ExpectedNote(m) == [pitch |-> m.note, time |-> m.time, duration |-> 100, volume |-> m.velocity]

\* C8: for every note-on of a stem file's first track, and for nothing else, the
\* combined file holds one note of the message's pitch and velocity that starts
\* at the message's time and lasts 100 ticks whatever that time is.
C8_NotePerNoteOn ==
    (cm_pc = "done" /\ cm_st.written)
    => \A e \in Present :
          LET got == NotesOn(TracksNamed(e.stem))
              want == NoteOns(e.file.tracks[1])
          IN  /\ Len(got) = Len(want)
              /\ \A j \in 1..Len(got) :
                    [pitch |-> got[j].pitch, time |-> got[j].time,
                     duration |-> got[j].duration, volume |-> got[j].volume]
                       = ExpectedNote(want[j])

\* What the merge does do once it has written the combined file: every stem file
\* present was the bass file, and each note-on of its first track gave one note
\* on channel 0 whose duration is the message's time plus 100.
MergeAsCoded ==
    (cm_pc = "done" /\ cm_st.written)
    => \A e \in Present :
          /\ e.stem = "bass"
          /\ LET got == NotesOn(TracksNamed(e.stem))
                 want == NoteOns(e.file.tracks[1])
             IN  /\ Len(got) = Len(want)
                 /\ \A j \in 1..Len(got) :
                       /\ got[j].pitch = want[j].note /\ got[j].time = want[j].time
                       /\ got[j].volume = want[j].velocity /\ got[j].channel = 0
                       /\ got[j].duration = want[j].time + 100

====
